---- MODULE Spec2Model ----
(***************************************************************************)
(* Model of the credit-report worker (src/index.js): the text chunker, the *)
(* record deduplicator, the PDF text extractor with its OCR fallback, and  *)
(* the POST /process job handler.                                          *)
(*                                                                         *)
(* Strings are sequences of one-character strings, so that length,         *)
(* concatenation, split and trim are computed and not assumed.             *)
(***************************************************************************)
EXTENDS Integers, Sequences, FiniteSets, TLC

VARIABLES
    \* chunkText (src/index.js:99-119)
    cpc, text, maxChunkSize, chunks,
    \* deduplication loop (src/index.js:165-177)
    dpc, candidates, uniqueItems, uniqueAgain,
    \* extractPdfText and extractTextWithOCR (src/index.js:35-96)
    epc, nativeOutcome, dataText, ocrSite, ocrCalls, worker, workersCreated,
    terminateCalls, terminateThrew, pageNo, pageLog, allText, ocrOutput, retText,
    \* one run of the POST /process handler (src/index.js:181-301)
    pc, jobStatus, resultJson, errorMessage, statusWrites, httpResponse, faults,
    thrown, extractedLen, nChunks, chunkIdx, requested, chunkOutcomes, lastResponse,
    allItems, creditItems, itemIdx, upsertAttempts, savedItems, callLog

cvars == <<cpc, text, maxChunkSize, chunks>>
dvars == <<dpc, candidates, uniqueItems, uniqueAgain>>
evars == <<epc, nativeOutcome, dataText, ocrSite, ocrCalls, worker, workersCreated,
           terminateCalls, terminateThrew, pageNo, pageLog, allText, ocrOutput,
           retText>>
hvars == <<pc, jobStatus, resultJson, errorMessage, statusWrites, httpResponse, faults,
           thrown, extractedLen, nChunks, chunkIdx, requested, chunkOutcomes,
           lastResponse, allItems, creditItems, itemIdx, upsertAttempts, savedItems,
           callLog>>
vars == <<cvars, dvars, evars, hvars>>

(***************************************************************************)
(* Bounds of the model.                                                    *)
(***************************************************************************)
MaxTextLen == 5
MaxChunkSizeArg == 4
MaxCandidates == 3
MaxChunks == 3

(***************************************************************************)
(* Constants of the program.                                               *)
(***************************************************************************)
\* data.text.trim().length > 100
NativeTextThreshold == 100
\* const pageCount = 10
pageCount == 10
\* extractedText.length < 100
MinExtractedLength == 100

(***************************************************************************)
(* Strings.                                                                *)
(***************************************************************************)
NL == "\n"

\* the string of n characters c
Rep(c, n) == [i \in 1..n |-> c]

WhiteSpace == {" ", "\t", "\r", NL}

\* String.prototype.trim
Trim(s) ==
    LET keep == {i \in 1..Len(s) : s[i] \notin WhiteSpace}
    IN  IF keep = {} THEN <<>>
        ELSE SubSeq(s, CHOOSE i \in keep : \A j \in keep : i <= j,
                       CHOOSE i \in keep : \A j \in keep : i >= j)

\* the sequences over S of length at most n
SeqUpTo(S, n) == UNION {[1..k -> S] : k \in 0..n}

RECURSIVE Concat(_)
\* Array.prototype.join('') of a sequence of strings
Concat(ss) == IF ss = <<>> THEN <<>> ELSE Head(ss) \o Concat(Tail(ss))

RECURSIVE NumStr(_)
\* String(n) for a natural number n
NumStr(n) ==
    LET digit == <<"0", "1", "2", "3", "4", "5", "6", "7", "8", "9">>
    IN  IF n < 10 THEN <<digit[n + 1]>>
        ELSE NumStr(n \div 10) \o <<digit[(n % 10) + 1]>>

RECURSIVE SplitFrom(_, _, _, _)
SplitFrom(s, i, cur, acc) ==
    IF i > Len(s) THEN Append(acc, cur)
    ELSE IF s[i] = NL THEN SplitFrom(s, i + 1, <<>>, Append(acc, cur))
    ELSE SplitFrom(s, i + 1, Append(cur, s[i]), acc)

\* text.split('\n'): the lines between the newlines, at least one
SplitLines(s) == SplitFrom(s, 1, <<>>, <<>>)

(***************************************************************************)
(* chunkText                                                               *)
(***************************************************************************)
\* a loop body that forgets the line that triggers a flush
ChunkStepDropsLine(st, line, maxSize) ==
    IF Len(st.currentChunk \o line) > maxSize /\ st.currentChunk # <<>>
    THEN [currentChunk |-> <<>>, chunks |-> Append(st.chunks, st.currentChunk)]
    ELSE [currentChunk |-> st.currentChunk \o line \o <<NL>>, chunks |-> st.chunks]

\* one iteration of `for (const line of lines)`
ChunkStep(st, line, maxSize) ==
    LET flush == Len(st.currentChunk \o line) > maxSize /\ st.currentChunk # <<>>
        cur == IF flush THEN <<>> ELSE st.currentChunk
    IN  [currentChunk |-> cur \o line \o <<NL>>,
         chunks |-> IF flush THEN Append(st.chunks, st.currentChunk) ELSE st.chunks]

RECURSIVE ChunkLoop(_, _, _, _)
ChunkLoop(lines, k, st, maxSize) ==
    IF k > Len(lines) THEN st
    ELSE ChunkLoop(lines, k + 1, ChunkStep(st, lines[k], maxSize), maxSize)

chunkText(t, maxSize) ==
    LET st == ChunkLoop(SplitLines(t), 1, [currentChunk |-> <<>>, chunks |-> <<>>], maxSize)
    IN  IF st.currentChunk # <<>> THEN Append(st.chunks, st.currentChunk) ELSE st.chunks

(***************************************************************************)
(* Candidate records and the deduplication loop                            *)
(***************************************************************************)
\* A nullable field is <<>> (null) or <<v>>.
Null == <<>>

Acme == <<"A", "c", "m", "e">>
Bank == <<"B", "k">>

Rec(c, t, a, neg, n, b) ==
    [creditor |-> c, type |-> t, amount |-> a, isNegative |-> neg, notes |-> n,
     bureaus |-> b]

R1 == Rec(Acme, <<"C">>, <<5000>>, TRUE, Null, <<"Experian">>)
R2 == Rec(Acme, <<"C">>, <<5000>>, TRUE, <<"dup">>, <<"Equifax", "TransUnion">>)
R3 == Rec(Bank, <<"K">>, Null, FALSE, Null, <<"Equifax">>)
R4 == Rec(Bank, <<"K">>, <<0>>, FALSE, <<"zero">>, <<>>)
R5 == Rec(<<"A", "-", "B">>, <<"C">>, Null, TRUE, Null, <<"TransUnion">>)
R6 == Rec(<<"A">>, <<"B", "-", "C">>, Null, TRUE, Null, <<"Experian">>)

SampleRecords == {R1, R2, R3, R4, R5, R6}

\* item.amount || 0 : null and 0 are falsy
AmountOr0(item) == IF item.amount = Null \/ item.amount = <<0>> THEN 0 ELSE item.amount[1]

\* `${item.creditor}-${item.type}-${item.amount || 0}`
DedupKey(item) ==
    item.creditor \o <<"-">> \o item.type \o <<"-">> \o NumStr(AmountOr0(item))

\* a loop body that forgets seen.add(key)
DedupStepNoAdd(st, item) ==
    IF DedupKey(item) \in st.seen THEN st
    ELSE [seen |-> st.seen, uniqueItems |-> Append(st.uniqueItems, item)]

\* one iteration of `for (const item of allItems)`
DedupStep(st, item) ==
    IF DedupKey(item) \in st.seen THEN st
    ELSE [seen |-> st.seen \cup {DedupKey(item)},
          uniqueItems |-> Append(st.uniqueItems, item)]

RECURSIVE DedupLoop(_, _, _)
DedupLoop(items, k, st) ==
    IF k > Len(items) THEN st
    ELSE DedupLoop(items, k + 1, DedupStep(st, items[k]))

Dedup(items) == DedupLoop(items, 1, [seen |-> {}, uniqueItems |-> <<>>]).uniqueItems

(***************************************************************************)
(* extractPdfText and extractTextWithOCR.  Every await is a step; epc      *)
(* names the call that is awaited.                                         *)
(***************************************************************************)
\* what pdfParse can give as data.text ("" stands for a missing text too)
NativeTexts ==
    { <<>>, Rep("x", 3), Rep(" ", 120),
      Rep("x", 99), Rep("x", 100), Rep("x", 101),
      <<" ">> \o Rep("x", 99), Rep("x", 100) \o <<NL>>,
      <<" ">> \o Rep("x", 101) \o <<NL>> }

\* the text the OCR engine recognizes on page i
PageText(i) == <<"p">> \o NumStr(i)

\* a variant that leaves the length test out
HasNativeTextNoLength(t) == t # <<>>

\* data.text && data.text.trim().length > 100
HasNativeText(t) == t # <<>> /\ Len(Trim(t)) > NativeTextThreshold

InitExtract ==
    /\ epc = "pdfParse"
    /\ nativeOutcome = "pending"
    /\ dataText = <<>>
    /\ ocrSite = "none"
    /\ ocrCalls = 0
    /\ worker = "none"
    /\ workersCreated = 0
    /\ terminateCalls = 0
    /\ terminateThrew = FALSE
    /\ pageNo = 0
    /\ pageLog = <<>>
    /\ allText = <<>>
    /\ ocrOutput = <<>>
    /\ retText = <<>>

IdleExtract ==
    /\ epc = "idle"
    /\ nativeOutcome = "pending"
    /\ dataText = <<>>
    /\ ocrSite = "none"
    /\ ocrCalls = 0
    /\ worker = "none"
    /\ workersCreated = 0
    /\ terminateCalls = 0
    /\ terminateThrew = FALSE
    /\ pageNo = 0
    /\ pageLog = <<>>
    /\ allText = <<>>
    /\ ocrOutput = <<>>
    /\ retText = <<>>

\* extractTextWithOCR(pdfBuffer) is called from `site`: createWorker is awaited
CallOCR(site) ==
    /\ epc' = "createWorker"
    /\ ocrSite' = site
    /\ ocrCalls' = ocrCalls + 1
    /\ pageNo' = 0
    /\ pageLog' = <<>>
    /\ allText' = <<>>

\* extractTextWithOCR throws: the call at line 91 is inside the try block, so
\* the catch at line 92 runs and calls it again; the call at line 94 propagates
OCRThrows ==
    IF ocrSite = "try"
    THEN CallOCR("catch")
    ELSE /\ epc' = "threw"
         /\ UNCHANGED <<ocrSite, ocrCalls, pageNo, pageLog, allText>>

\* await pdfParse(pdfBuffer), then the test of lines 84-91, or the catch
PdfParseSettles(outcome, t) ==
    /\ epc = "pdfParse"
    /\ nativeOutcome' = outcome
    /\ dataText' = IF outcome = "text" THEN t ELSE <<>>
    /\ IF outcome = "text" /\ HasNativeText(t)
       THEN /\ epc' = "returned"
            /\ retText' = t
            /\ UNCHANGED <<ocrSite, ocrCalls, pageNo, pageLog, allText>>
       ELSE /\ CallOCR(IF outcome = "text" THEN "try" ELSE "catch")
            /\ UNCHANGED retText
    /\ UNCHANGED <<worker, workersCreated, terminateCalls, terminateThrew, ocrOutput>>

\* a variant whose setup error leaves without terminating the worker
CreateWorkerSettlesNoCleanup(created, setup) ==
    /\ epc = "createWorker"
    /\ IF created = "throws"
       THEN /\ OCRThrows
            /\ UNCHANGED <<worker, workersCreated, terminateThrew>>
       ELSE /\ worker' = "live"
            /\ workersCreated' = workersCreated + 1
            /\ terminateThrew' = FALSE
            /\ IF setup = "throws"
               THEN OCRThrows
               ELSE /\ epc' = "convert"
                    /\ pageNo' = 1
                    /\ UNCHANGED <<ocrSite, ocrCalls, pageLog, allText>>
    /\ UNCHANGED <<nativeOutcome, dataText, terminateCalls, ocrOutput, retText>>

\* await createWorker('eng') (outside the try), then lines 41-56: pdf2pic is
\* loaded, the converter is made and page 1 is asked for
CreateWorkerSettles(created, setup) ==
    /\ epc = "createWorker"
    /\ IF created = "throws"
       THEN /\ OCRThrows
            /\ UNCHANGED <<worker, workersCreated, terminateThrew>>
       ELSE /\ worker' = "live"
            /\ workersCreated' = workersCreated + 1
            /\ terminateThrew' = FALSE
            /\ IF setup = "throws"
               THEN /\ epc' = "terminateOnError"
                    /\ UNCHANGED <<ocrSite, ocrCalls, pageNo, pageLog, allText>>
               ELSE /\ epc' = "convert"
                    /\ pageNo' = 1
                    /\ UNCHANGED <<ocrSite, ocrCalls, pageLog, allText>>
    /\ UNCHANGED <<nativeOutcome, dataText, terminateCalls, ocrOutput, retText>>

\* i++ and the loop test: the next page, or worker.terminate() at line 69
NextPage ==
    IF pageNo < pageCount
    THEN epc' = "convert" /\ pageNo' = pageNo + 1
    ELSE epc' = "terminate" /\ UNCHANGED pageNo

\* await converter(i, ...): it throws (caught at line 64), gives no buffer, or
\* gives the page image, which is handed to worker.recognize
ConvertSettles(outcome) ==
    /\ epc = "convert"
    /\ IF outcome = "buffer"
       THEN epc' = "recognize" /\ UNCHANGED <<pageNo, pageLog>>
       ELSE /\ NextPage
            /\ pageLog' = Append(pageLog, [page |-> pageNo, ok |-> FALSE])
    /\ UNCHANGED <<nativeOutcome, dataText, ocrSite, ocrCalls, worker, workersCreated,
                   terminateCalls, terminateThrew, allText, ocrOutput, retText>>

\* a variant in which a recognition error leaves the page loop
RecognizeSettlesAborting(outcome) ==
    /\ epc = "recognize"
    /\ allText' = IF outcome = "text"
                  THEN allText \o PageText(pageNo) \o <<NL, NL>>
                  ELSE allText
    /\ pageLog' = Append(pageLog, [page |-> pageNo, ok |-> outcome = "text"])
    /\ IF outcome = "text"
       THEN NextPage
       ELSE epc' = "terminateOnError" /\ UNCHANGED pageNo
    /\ UNCHANGED <<nativeOutcome, dataText, ocrSite, ocrCalls, worker, workersCreated,
                   terminateCalls, terminateThrew, ocrOutput, retText>>

\* await worker.recognize(result.buffer): allText += text + '\n\n', or the
\* catch at line 64
RecognizeSettles(outcome) ==
    /\ epc = "recognize"
    /\ allText' = IF outcome = "text"
                  THEN allText \o PageText(pageNo) \o <<NL, NL>>
                  ELSE allText
    /\ pageLog' = Append(pageLog, [page |-> pageNo, ok |-> outcome = "text"])
    /\ NextPage
    /\ UNCHANGED <<nativeOutcome, dataText, ocrSite, ocrCalls, worker, workersCreated,
                   terminateCalls, terminateThrew, ocrOutput, retText>>

\* await worker.terminate() at line 69, then return allText; a throw is caught
\* at line 71
TerminateSettles(outcome) ==
    /\ epc = "terminate"
    /\ terminateCalls' = terminateCalls + 1
    /\ terminateThrew' = (outcome = "throws")
    /\ IF outcome = "ok"
       THEN /\ worker' = "terminated"
            /\ epc' = "returned"
            /\ ocrOutput' = allText
            /\ retText' = allText
       ELSE /\ epc' = "terminateOnError"
            /\ UNCHANGED <<worker, ocrOutput, retText>>
    /\ UNCHANGED <<nativeOutcome, dataText, ocrSite, ocrCalls, workersCreated,
                   pageNo, pageLog, allText>>

\* await worker.terminate() at line 73, then throw error
TerminateOnErrorSettles(outcome) ==
    /\ epc = "terminateOnError"
    /\ terminateCalls' = terminateCalls + 1
    /\ terminateThrew' = (outcome = "throws")
    /\ worker' = IF outcome = "ok" THEN "terminated" ELSE worker
    /\ OCRThrows
    /\ UNCHANGED <<nativeOutcome, dataText, workersCreated, ocrOutput, retText>>

NextExtract ==
    \/ \E t \in NativeTexts : PdfParseSettles("text", t) /\ UNCHANGED <<cvars, dvars, hvars>>
    \/ PdfParseSettles("throws", <<>>) /\ UNCHANGED <<cvars, dvars, hvars>>
    \/ \E c, u \in {"ok", "throws"} : CreateWorkerSettles(c, u) /\ UNCHANGED <<cvars, dvars, hvars>>
    \/ \E o \in {"throws", "noBuffer", "buffer"} : ConvertSettles(o) /\ UNCHANGED <<cvars, dvars, hvars>>
    \/ \E o \in {"throws", "text"} : RecognizeSettles(o) /\ UNCHANGED <<cvars, dvars, hvars>>
    \/ \E o \in {"ok", "throws"} : TerminateSettles(o) /\ UNCHANGED <<cvars, dvars, hvars>>
    \/ \E o \in {"ok", "throws"} : TerminateOnErrorSettles(o) /\ UNCHANGED <<cvars, dvars, hvars>>

(***************************************************************************)
(* The POST /process handler.  Every await is a step: pc names the         *)
(* external call that is awaited, and the step takes the call's outcome    *)
(* and runs the handler up to its next await.                              *)
(*                                                                         *)
(* A status write (supabase update) ends in one of three ways: "ok" (the   *)
(* row is written), "error" (the call resolves with {error}: nothing is    *)
(* written and the handler, which never reads the result, goes on), or     *)
(* "throws" (the call rejects and nothing is written).                     *)
(***************************************************************************)
WriteOutcomes == {"ok", "error", "throws"}

\* the text extractPdfText returns is kept by its length
ExtractedLengths == {0, 99, 100, 101}

\* a value of a key of the parsed response
Absent == [k |-> "absent", v |-> <<>>]
Falsy == [k |-> "falsy", v |-> <<>>]
NotArray == [k |-> "other", v |-> <<>>]
Array(list) == [k |-> "array", v |-> list]

\* the record lists a chunk's response may carry
ChunkLists == {<<>>, <<R1>>, <<R2, R3>>, <<R5>>}

KeyValues == {Absent, Falsy, NotArray} \cup {Array(l) : l \in ChunkLists}

\* what awaiting the completion and parsing its content may give: the call
\* throws, the content is no JSON, or it is a JSON object
ChunkResponses ==
    {[kind |-> "throws", items |-> Absent, accounts |-> Absent],
     [kind |-> "badjson", items |-> Absent, accounts |-> Absent]}
    \cup {[kind |-> "object", items |-> i, accounts |-> a] : i, a \in KeyValues}

\* JavaScript truthiness of a key's value: an array, even empty, is truthy
Truthy(x) == x.k \in {"other", "array"}

\* a parser that reads the `items` key only
ResponseItemsOnlyItems(parsed) ==
    IF Truthy(parsed.items) THEN parsed.items ELSE Array(<<>>)

\* parsed.items || parsed.accounts || []
ResponseItems(parsed) ==
    IF Truthy(parsed.items) THEN parsed.items
    ELSE IF Truthy(parsed.accounts) THEN parsed.accounts
    ELSE Array(<<>>)

\* the try block of lines 142-162 for one chunk: whether the catch ran, and
\* the records pushed to allItems
ChunkResult(r) ==
    IF r.kind # "object" THEN [caught |-> TRUE, items |-> <<>>]
    ELSE LET items == ResponseItems(r)
         IN  [caught |-> FALSE,
              items |-> IF items.k = "array" THEN items.v ELSE <<>>]

\* the row upserted for an item (lines 235-248)
ItemRow(item) ==
    [creditor |-> item.creditor, type |-> item.type, amount_cents |-> item.amount,
     is_negative |-> item.isNegative, notes |-> item.notes,
     bureaus |-> item.bureaus, status |-> "TO_SEND"]

IsNegativeItem(item) == item.isNegative

\* creditItems.filter(item => item.isNegative)
NegativeItems(items) == SelectSeq(items, IsNegativeItem)

\* a variant whose negative_accounts lists every item
ResultJsonAllAccounts(items) ==
    LET negativeItems == NegativeItems(items)
    IN  [total_items |-> Len(items),
         negative_items |-> Len(negativeItems),
         items_saved |-> TRUE,
         negative_accounts |->
            [i \in 1..Len(items) |->
                [creditor |-> items[i].creditor,
                 type |-> items[i].type,
                 amount_cents |-> items[i].amount,
                 bureaus |-> items[i].bureaus]]]

\* result_json of the 'completed' write (lines 262-272)
ResultJson(items) ==
    LET negativeItems == NegativeItems(items)
    IN  [total_items |-> Len(items),
         negative_items |-> Len(negativeItems),
         items_saved |-> TRUE,
         negative_accounts |->
            [i \in 1..Len(negativeItems) |->
                [creditor |-> negativeItems[i].creditor,
                 type |-> negativeItems[i].type,
                 amount_cents |-> negativeItems[i].amount,
                 bureaus |-> negativeItems[i].bureaus]]]

\* an external call of the run: the awaited call pc names, with the chunk or
\* the item it is about
CallOf(p, ci, ii) ==
    [op |-> p, n |-> IF p = "openai" THEN ci ELSE IF p = "upsert" THEN ii ELSE 0]

InitHandler ==
    /\ pc = "updateProcessing"
    /\ jobStatus = "queued"
    /\ resultJson = <<>>
    /\ errorMessage = <<>>
    /\ statusWrites = <<>>
    /\ httpResponse = <<>>
    /\ faults = {}
    /\ thrown = <<>>
    /\ extractedLen = -1
    /\ nChunks = 0
    /\ chunkIdx = 0
    /\ requested = <<>>
    /\ chunkOutcomes = <<>>
    /\ lastResponse = <<>>
    /\ allItems = <<>>
    /\ creditItems = <<>>
    /\ itemIdx = 0
    /\ upsertAttempts = <<>>
    /\ savedItems = <<>>
    /\ callLog = <<[ev |-> "issue", call |-> CallOf("updateProcessing", 0, 0)]>>

IdleHandler ==
    /\ pc = "idle"
    /\ jobStatus = "queued"
    /\ resultJson = <<>>
    /\ errorMessage = <<>>
    /\ statusWrites = <<>>
    /\ httpResponse = <<>>
    /\ faults = {}
    /\ thrown = <<>>
    /\ extractedLen = -1
    /\ nChunks = 0
    /\ chunkIdx = 0
    /\ requested = <<>>
    /\ chunkOutcomes = <<>>
    /\ lastResponse = <<>>
    /\ allItems = <<>>
    /\ creditItems = <<>>
    /\ itemIdx = 0
    /\ upsertAttempts = <<>>
    /\ savedItems = <<>>
    /\ callLog = <<>>

pipeVars == <<extractedLen, nChunks, chunkIdx, requested, chunkOutcomes, lastResponse,
              allItems, creditItems, itemIdx, upsertAttempts, savedItems>>

\* the awaited call settles and the handler runs on to its next await, where
\* the next call is issued
LogAwait ==
    callLog' = callLog
        \o <<[ev |-> "settle", call |-> CallOf(pc, chunkIdx, itemIdx)]>>
        \o (IF pc' \in {"done", "rejected"}
            THEN <<>>
            ELSE <<[ev |-> "issue", call |-> CallOf(pc', chunkIdx', itemIdx')]>>)

\* an error reaches the catch of line 283: the 'failed' write is awaited
EnterCatch(message) ==
    /\ pc' = "updateFailed"
    /\ thrown' = <<message>>

\* lines 189-195: await update({status: 'processing'}), then the download
UpdateProcessingSettles(o) ==
    /\ pc = "updateProcessing"
    /\ statusWrites' = Append(statusWrites, "processing")
    /\ jobStatus' = IF o = "ok" THEN "processing" ELSE jobStatus
    /\ faults' = IF o = "ok" THEN faults ELSE faults \cup {"statusWrite"}
    /\ IF o = "throws"
       THEN EnterCatch("statusWrite")
       ELSE pc' = "download" /\ UNCHANGED thrown
    /\ UNCHANGED <<resultJson, errorMessage, httpResponse, pipeVars>>
    /\ LogAwait

\* lines 198-209: await download(filePath); downloadError, or a rejection of
\* the download or of arrayBuffer(), goes to the catch
DownloadSettles(o) ==
    /\ pc = "download"
    /\ IF o = "ok"
       THEN pc' = "extract" /\ UNCHANGED thrown
       ELSE EnterCatch("download")
    /\ UNCHANGED <<jobStatus, resultJson, errorMessage, statusWrites, httpResponse,
                   faults, pipeVars>>
    /\ LogAwait

\* a variant that rejects the empty text only
ExtractSettlesOnlyEmpty(o, len, n) ==
    /\ pc = "extract"
    /\ IF o = "throws"
       THEN /\ EnterCatch("extract")
            /\ UNCHANGED <<extractedLen, nChunks, chunkIdx>>
       ELSE /\ extractedLen' = len
            /\ IF len = 0
               THEN /\ EnterCatch("insufficient")
                    /\ UNCHANGED <<nChunks, chunkIdx>>
               ELSE /\ nChunks' = n
                    /\ chunkIdx' = 1
                    /\ pc' = "openai"
                    /\ UNCHANGED thrown
    /\ UNCHANGED <<jobStatus, resultJson, errorMessage, statusWrites, httpResponse,
                   faults, requested, chunkOutcomes, lastResponse, allItems,
                   creditItems, itemIdx, upsertAttempts, savedItems>>
    /\ LogAwait

\* a variant that issues the requests of all the chunks at once
ExtractSettlesAllChunksAtOnce(o, len, n) ==
    /\ pc = "extract"
    /\ IF o = "throws"
       THEN /\ EnterCatch("extract")
            /\ UNCHANGED <<extractedLen, nChunks, chunkIdx>>
       ELSE /\ extractedLen' = len
            /\ IF len = 0 \/ len < MinExtractedLength
               THEN /\ EnterCatch("insufficient")
                    /\ UNCHANGED <<nChunks, chunkIdx>>
               ELSE /\ nChunks' = n
                    /\ chunkIdx' = 1
                    /\ pc' = "openai"
                    /\ UNCHANGED thrown
    /\ UNCHANGED <<jobStatus, resultJson, errorMessage, statusWrites, httpResponse,
                   faults, requested, chunkOutcomes, lastResponse, allItems,
                   creditItems, itemIdx, upsertAttempts, savedItems>>
    /\ IF pc' = "openai"
       THEN callLog' = callLog
                \o <<[ev |-> "settle", call |-> CallOf(pc, chunkIdx, itemIdx)]>>
                \o [i \in 1..n |-> [ev |-> "issue", call |-> CallOf("openai", i, 0)]]
       ELSE LogAwait

\* lines 214-227: await extractPdfText(pdfBuffer); the length test; the text
\* is chunked (chunkText returns at least one chunk, of which the handler uses
\* the number and the order) and the request for the first chunk is made
ExtractSettles(o, len, n) ==
    /\ pc = "extract"
    /\ IF o = "throws"
       THEN /\ EnterCatch("extract")
            /\ UNCHANGED <<extractedLen, nChunks, chunkIdx>>
       ELSE /\ extractedLen' = len
            /\ IF len = 0 \/ len < MinExtractedLength
               THEN /\ EnterCatch("insufficient")
                    /\ UNCHANGED <<nChunks, chunkIdx>>
               ELSE /\ nChunks' = n
                    /\ chunkIdx' = 1
                    /\ pc' = "openai"
                    /\ UNCHANGED thrown
    /\ UNCHANGED <<jobStatus, resultJson, errorMessage, statusWrites, httpResponse,
                   faults, requested, chunkOutcomes, lastResponse, allItems,
                   creditItems, itemIdx, upsertAttempts, savedItems>>
    /\ LogAwait

\* after the last chunk: the deduplication (lines 165-177) and the first
\* upsert of the loop of line 231, or the 'completed' write when no item is left
AfterChunks(items) ==
    /\ creditItems' = Dedup(items)
    /\ IF Dedup(items) = <<>>
       THEN pc' = "updateCompleted" /\ UNCHANGED itemIdx
       ELSE pc' = "upsert" /\ itemIdx' = 1

\* a chunk loop in which the error of one chunk ends the job
OpenAISettlesAborting(r) ==
    /\ pc = "openai"
    /\ requested' = Append(requested, chunkIdx)
    /\ lastResponse' = <<r>>
    /\ chunkOutcomes' = Append(chunkOutcomes, ChunkResult(r))
    /\ allItems' = allItems \o ChunkResult(r).items
    /\ IF ChunkResult(r).caught
       THEN EnterCatch("chunk") /\ UNCHANGED <<chunkIdx, creditItems, itemIdx>>
       ELSE /\ UNCHANGED thrown
            /\ IF chunkIdx < nChunks
               THEN /\ chunkIdx' = chunkIdx + 1
                    /\ UNCHANGED <<pc, creditItems, itemIdx>>
               ELSE /\ AfterChunks(allItems \o ChunkResult(r).items)
                    /\ UNCHANGED chunkIdx
    /\ UNCHANGED <<jobStatus, resultJson, errorMessage, statusWrites, httpResponse,
                   faults, extractedLen, nChunks, upsertAttempts, savedItems>>
    /\ LogAwait

\* lines 139-163: await openai.chat.completions.create for chunk chunkIdx;
\* its records are pushed, or the catch of line 160 logs; then the next chunk
OpenAISettles(r) ==
    /\ pc = "openai"
    /\ requested' = Append(requested, chunkIdx)
    /\ lastResponse' = <<r>>
    /\ chunkOutcomes' = Append(chunkOutcomes, ChunkResult(r))
    /\ allItems' = allItems \o ChunkResult(r).items
    /\ IF chunkIdx < nChunks
       THEN /\ chunkIdx' = chunkIdx + 1
            /\ UNCHANGED <<pc, creditItems, itemIdx>>
       ELSE /\ AfterChunks(allItems \o ChunkResult(r).items)
            /\ UNCHANGED chunkIdx
    /\ UNCHANGED <<jobStatus, resultJson, errorMessage, statusWrites, httpResponse,
                   faults, thrown, extractedLen, nChunks, upsertAttempts, savedItems>>
    /\ LogAwait

\* a variant in which an upsert that throws ends the run in the catch
UpsertSettlesAborting(o) ==
    /\ pc = "upsert"
    /\ upsertAttempts' = Append(upsertAttempts, itemIdx)
    /\ savedItems' = IF o = "ok"
                     THEN Append(savedItems, ItemRow(creditItems[itemIdx]))
                     ELSE savedItems
    /\ lastResponse' = <<>>
    /\ IF o = "throws"
       THEN EnterCatch("upsert") /\ UNCHANGED itemIdx
       ELSE IF itemIdx < Len(creditItems)
       THEN itemIdx' = itemIdx + 1 /\ UNCHANGED <<pc, thrown>>
       ELSE pc' = "updateCompleted" /\ UNCHANGED <<itemIdx, thrown>>
    /\ UNCHANGED <<jobStatus, resultJson, errorMessage, statusWrites, httpResponse,
                   faults, extractedLen, nChunks, chunkIdx, requested,
                   chunkOutcomes, allItems, creditItems>>
    /\ LogAwait

\* lines 231-252: await upsert(item); a rejection is caught at line 249 and a
\* resolved {error} is not read; then the next item, or the 'completed' write
UpsertSettles(o) ==
    /\ pc = "upsert"
    /\ upsertAttempts' = Append(upsertAttempts, itemIdx)
    /\ savedItems' = IF o = "ok"
                     THEN Append(savedItems, ItemRow(creditItems[itemIdx]))
                     ELSE savedItems
    /\ lastResponse' = <<>>
    /\ IF itemIdx < Len(creditItems)
       THEN itemIdx' = itemIdx + 1 /\ UNCHANGED pc
       ELSE pc' = "updateCompleted" /\ UNCHANGED itemIdx
    /\ UNCHANGED <<jobStatus, resultJson, errorMessage, statusWrites, httpResponse,
                   faults, thrown, extractedLen, nChunks, chunkIdx, requested,
                   chunkOutcomes, allItems, creditItems>>
    /\ LogAwait

\* lines 255-281: await update({status: 'completed', ...}), then res.json;
\* both are inside the try block
UpdateCompletedSettles(o, send) ==
    /\ pc = "updateCompleted"
    /\ statusWrites' = Append(statusWrites, "completed")
    /\ lastResponse' = <<>>
    /\ IF o = "ok"
       THEN jobStatus' = "completed" /\ resultJson' = <<ResultJson(creditItems)>>
       ELSE UNCHANGED <<jobStatus, resultJson>>
    /\ faults' = faults \cup (IF o = "ok" THEN {} ELSE {"statusWrite"})
                        \cup (IF o # "throws" /\ send = "throws" THEN {"response"} ELSE {})
    /\ IF o = "throws"
       THEN EnterCatch("statusWrite") /\ UNCHANGED httpResponse
       ELSE IF send = "throws"
       THEN EnterCatch("response") /\ UNCHANGED httpResponse
       ELSE /\ httpResponse' = Append(httpResponse,
                   [success |-> TRUE, totalItems |-> Len(creditItems),
                    negativeItems |-> Len(NegativeItems(creditItems)),
                    error |-> <<>>])
            /\ pc' = "done"
            /\ UNCHANGED thrown
    /\ UNCHANGED <<errorMessage, extractedLen, nChunks, chunkIdx, requested,
                   chunkOutcomes, allItems, creditItems, itemIdx, upsertAttempts,
                   savedItems>>
    /\ LogAwait

\* lines 283-300: await update({status: 'failed', ...}), then
\* res.status(500).json; a throw here leaves the handler as a rejection
UpdateFailedSettles(o, send) ==
    /\ pc = "updateFailed"
    /\ statusWrites' = Append(statusWrites, "failed")
    /\ lastResponse' = <<>>
    /\ IF o = "ok"
       THEN jobStatus' = "failed" /\ errorMessage' = thrown
       ELSE UNCHANGED <<jobStatus, errorMessage>>
    /\ faults' = faults \cup (IF o = "ok" THEN {} ELSE {"statusWrite"})
                        \cup (IF o # "throws" /\ send = "throws" THEN {"response"} ELSE {})
    /\ IF o = "throws" \/ send = "throws"
       THEN pc' = "rejected" /\ UNCHANGED httpResponse
       ELSE /\ httpResponse' = Append(httpResponse,
                   [success |-> FALSE, totalItems |-> 0, negativeItems |-> 0,
                    error |-> thrown])
            /\ pc' = "done"
    /\ UNCHANGED <<resultJson, thrown, extractedLen, nChunks, chunkIdx, requested,
                   chunkOutcomes, allItems, creditItems, itemIdx, upsertAttempts,
                   savedItems>>
    /\ LogAwait

Next ==
    \/ \E o \in WriteOutcomes : UpdateProcessingSettles(o) /\ UNCHANGED <<cvars, dvars, evars>>
    \/ \E o \in {"ok", "error", "throws"} : DownloadSettles(o) /\ UNCHANGED <<cvars, dvars, evars>>
    \/ \E len \in ExtractedLengths, n \in 1..MaxChunks :
          ExtractSettles("text", len, n) /\ UNCHANGED <<cvars, dvars, evars>>
    \/ ExtractSettles("throws", 0, 1) /\ UNCHANGED <<cvars, dvars, evars>>
    \/ \E r \in ChunkResponses : OpenAISettles(r) /\ UNCHANGED <<cvars, dvars, evars>>
    \/ \E o \in WriteOutcomes : UpsertSettles(o) /\ UNCHANGED <<cvars, dvars, evars>>
    \/ \E o \in WriteOutcomes, send \in {"sent", "throws"} :
          UpdateCompletedSettles(o, send) /\ UNCHANGED <<cvars, dvars, evars>>
    \/ \E o \in WriteOutcomes, send \in {"sent", "throws"} :
          UpdateFailedSettles(o, send) /\ UNCHANGED <<cvars, dvars, evars>>

(***************************************************************************)
(* Specification of chunkText: any text, any positive maxChunkSize.        *)
(***************************************************************************)
Alphabet == {"a", "\r", NL}

InitChunk ==
    /\ cpc = "call"
    /\ text \in SeqUpTo(Alphabet, MaxTextLen)
    /\ maxChunkSize \in 1..MaxChunkSizeArg
    /\ chunks = <<>>

ChunkTextCall ==
    /\ cpc = "call"
    /\ chunks' = chunkText(text, maxChunkSize)
    /\ cpc' = "done"
    /\ UNCHANGED <<text, maxChunkSize>>

IdleChunk == cpc = "idle" /\ text = <<>> /\ maxChunkSize = 1 /\ chunks = <<>>

(***************************************************************************)
(* Specification of the deduplication step: any list of candidates, and    *)
(* the step applied again to its own output.                               *)
(***************************************************************************)
InitDedup ==
    /\ dpc = "call"
    /\ candidates \in SeqUpTo(SampleRecords, MaxCandidates)
    /\ uniqueItems = <<>>
    /\ uniqueAgain = <<>>

DedupCall ==
    /\ dpc = "call"
    /\ uniqueItems' = Dedup(candidates)
    /\ dpc' = "once"
    /\ UNCHANGED <<candidates, uniqueAgain>>

DedupAgain ==
    /\ dpc = "once"
    /\ uniqueAgain' = Dedup(uniqueItems)
    /\ dpc' = "twice"
    /\ UNCHANGED <<candidates, uniqueItems>>

IdleDedup == dpc = "idle" /\ candidates = <<>> /\ uniqueItems = <<>> /\ uniqueAgain = <<>>

InitChunkSpec == InitChunk /\ IdleDedup /\ IdleExtract /\ IdleHandler

NextChunk == ChunkTextCall /\ UNCHANGED <<dvars, evars, hvars>>

SpecChunk == InitChunkSpec /\ [][NextChunk]_vars

NextDedup ==
    \/ DedupCall /\ UNCHANGED <<cvars, evars, hvars>>
    \/ DedupAgain /\ UNCHANGED <<cvars, evars, hvars>>

InitDedupSpec == InitDedup /\ IdleChunk /\ IdleExtract /\ IdleHandler

SpecDedup == InitDedupSpec /\ [][NextDedup]_vars

InitExtractSpec == InitExtract /\ IdleChunk /\ IdleDedup /\ IdleHandler

SpecExtract == InitExtractSpec /\ [][NextExtract]_vars

Init == InitHandler /\ IdleChunk /\ IdleDedup /\ IdleExtract

Spec == Init /\ [][Next]_vars

(***************************************************************************)
(* Properties of extractPdfText                                            *)
(***************************************************************************)
\* C4: when native extraction gives a text of 100 characters or more, OCR is
\* never invoked and the native text is what extractPdfText returns.
C4_NativeTextSkipsOCR ==
    (nativeOutcome = "text" /\ Len(dataText) >= 100) =>
        /\ ocrCalls = 0
        /\ epc = "returned" /\ retText = dataText

\* C5: when native extraction throws or gives fewer than 100 characters,
\* extractTextWithOCR is invoked exactly once, a returned value is the OCR
\* output, and an OCR failure is what the caller gets.
C5_FallbackInvokesOCROnce ==
    (nativeOutcome = "throws" \/ (nativeOutcome = "text" /\ Len(dataText) < 100)) =>
        /\ ocrCalls = 1
        /\ epc = "returned" => retText = ocrOutput
        /\ epc \in {"returned", "threw"} => ocrSite # "none"

\* C11: extractPdfText never returns an empty text: it returns a non-empty
\* text or it throws.
C11_NeverReturnsEmptyText == epc = "returned" => retText # <<>>

\* C11 as amended: extractPdfText returns a text or throws.  A text returned
\* without OCR has more than 100 characters once trimmed; a text returned
\* from the OCR fallback is empty exactly when no page was recognized.
C11_EmptyOnlyWhenNoPageRecognized ==
    epc = "returned" =>
        /\ ocrSite = "none" => Len(Trim(retText)) > NativeTextThreshold
        /\ ocrSite # "none" =>
               (retText = <<>> <=> \A i \in 1..Len(pageLog) : ~pageLog[i].ok)

\* the fallback ran over all the pages, none was recognized, and the empty
\* text was returned
C11_Witness ==
    /\ epc = "returned" /\ retText = <<>>
    /\ ocrSite # "none" /\ Len(pageLog) = pageCount
\* the states in which no call of extractTextWithOCR is running: it returned,
\* it threw, or the next call is at its first await
OCRCallEnded == epc \in {"returned", "threw", "createWorker"}

\* C12: a worker that was created has been terminated when its call returns
\* or throws, whatever the exit path, an error in terminate included: no
\* worker outlives its call, a call creates one worker, and recognize is
\* issued on a live worker only.
C12_WorkerTerminatedOnEveryExit ==
    /\ OCRCallEnded => worker # "live"
    /\ workersCreated <= ocrCalls
    /\ epc = "recognize" => worker = "live"

\* C12 as amended: terminate has been awaited on a created worker when its
\* call returns or throws; the worker is then terminated unless terminate
\* itself threw; a call creates one worker, and convert and recognize are
\* issued only before any terminate of the worker.
C12_TerminateAwaitedOnEveryExit ==
    /\ OCRCallEnded =>
           /\ terminateCalls >= workersCreated
           /\ worker = "live" => terminateThrew
    /\ workersCreated <= ocrCalls
    /\ epc \in {"convert", "recognize"} => worker = "live" /\ ~terminateThrew

\* the page loop ended, terminate threw at line 69 and again at line 73: the
\* call threw and its worker is still live
C12_Witness ==
    /\ epc = "threw" /\ pageNo = pageCount
    /\ worker = "live" /\ terminateThrew /\ terminateCalls >= 2
\* the text of the pages the log marks recognized, each followed by '\n\n'
RECURSIVE RecognizedText(_)
RecognizedText(log) ==
    IF log = <<>> THEN <<>>
    ELSE RecognizedText(SubSeq(log, 1, Len(log) - 1)) \o
         (IF log[Len(log)].ok
          THEN PageText(log[Len(log)].page) \o <<NL, NL>>
          ELSE <<>>)

\* the page loop is over: terminate is awaited or the call returned
PageLoopDone == pageNo >= 1 /\ epc \in {"terminate", "terminateOnError", "returned", "threw"}

\* C15: in extractTextWithOCR the pages are attempted in order 1, 2, ..., at
\* most 10 of them; a page that fails to rasterize or to be recognized is
\* followed by the next page, so that all 10 are attempted before the call
\* returns or reaches its catch; the text is the concatenation, in page
\* order, of the recognized pages, each followed by a blank line.
C15_PageFailuresSkipped ==
    /\ Len(pageLog) <= pageCount
    /\ \A i \in 1..Len(pageLog) : pageLog[i].page = i
    /\ epc \in {"convert", "recognize"} => pageNo = Len(pageLog) + 1
    /\ allText = RecognizedText(pageLog)
    /\ PageLoopDone => Len(pageLog) = pageCount
    /\ (epc = "returned" /\ ocrSite # "none") => retText = RecognizedText(pageLog)

\* pages failed at rasterization and at recognition, later pages were
\* recognized, and the text was returned
C15_Witness ==
    /\ epc = "returned" /\ Len(pageLog) = pageCount
    /\ ~pageLog[1].ok /\ pageLog[2].ok /\ ~pageLog[3].ok /\ pageLog[pageCount].ok
    /\ retText = PageText(2) \o <<NL, NL>> \o PageText(pageCount) \o <<NL, NL>>

(***************************************************************************)
(* Properties of chunkText                                                 *)
(***************************************************************************)
\* the lines a chunk holds: it is a run of lines, each followed by a newline
ChunkLines(chunk) ==
    LET ls == SplitLines(chunk) IN SubSeq(ls, 1, Len(ls) - 1)

EndsWithNewline(chunk) == chunk # <<>> /\ chunk[Len(chunk)] = NL

\* C6: the chunks of chunkText, concatenated in order, are the input text with
\* its last line terminated by a newline (no character is lost, changed or
\* reordered); every chunk is a run of whole lines, and the lines of the chunks,
\* in chunk order, are the lines of the input in their order, each once.
C6_ChunksReconstructText ==
    cpc = "done" =>
        /\ Concat(chunks) = text \o <<NL>>
        /\ \A i \in 1..Len(chunks) : EndsWithNewline(chunks[i])
        /\ Concat([i \in 1..Len(chunks) |-> ChunkLines(chunks[i])]) = SplitLines(text)

C6_Witness ==
    /\ cpc = "done"
    /\ Len(chunks) >= 3
    /\ \E i \in 1..Len(chunks) : Len(ChunkLines(chunks[i])) >= 2
    /\ \E i \in 1..Len(text) : text[i] = "\r"

\* C7: every chunk is at most maxChunkSize long, unless it is one single line
\* that is itself longer than maxChunkSize.
C7_ChunkWithinBound ==
    cpc = "done" =>
        \A i \in 1..Len(chunks) :
            \/ Len(chunks[i]) <= maxChunkSize
            \/ /\ Len(ChunkLines(chunks[i])) = 1
               /\ Len(ChunkLines(chunks[i])[1]) > maxChunkSize

(***************************************************************************)
(* Properties of the deduplication step                                    *)
(***************************************************************************)
\* the first position of a record in a list (0 when it is not there)
FirstPos(items, r) ==
    IF \E i \in 1..Len(items) : items[i] = r
    THEN CHOOSE i \in 1..Len(items) :
            items[i] = r /\ \A j \in 1..(i - 1) : items[j] # r
    ELSE 0

\* C8: deduplicating the output of the deduplication step returns it unchanged,
\* and the kept records stand in the order of their first occurrences in the
\* input.
C8_DedupIdempotentFirstSeen ==
    /\ dpc = "twice" => uniqueAgain = uniqueItems
    /\ dpc \in {"once", "twice"} =>
          /\ \A k \in 1..Len(uniqueItems) : FirstPos(candidates, uniqueItems[k]) > 0
          /\ \A k, l \in 1..Len(uniqueItems) :
                k < l => FirstPos(candidates, uniqueItems[k])
                            < FirstPos(candidates, uniqueItems[l])

C8_Witness ==
    /\ dpc = "twice"
    /\ Len(candidates) = 3
    /\ Len(uniqueItems) = 2
    /\ candidates[1] = candidates[3]

\* the key of the data model: (creditor, type, amount or 0)
KeyTuple(item) == <<item.creditor, item.type, AmountOr0(item)>>

\* the records of a list whose key K occurs at no earlier position, in order
FirstOfEachKey(items, K(_)) ==
    LET RECURSIVE From(_)
        From(i) ==
            IF i > Len(items) THEN <<>>
            ELSE IF \A j \in 1..(i - 1) : K(items[j]) # K(items[i])
                 THEN <<items[i]>> \o From(i + 1)
                 ELSE From(i + 1)
    IN  From(1)

\* C9: no two kept records have the same (creditor, type, amount-or-0), and
\* the kept records are exactly the first input record of every such key.
C9_FirstRecordPerKey ==
    dpc = "once" =>
        /\ \A k, l \in 1..Len(uniqueItems) :
              k # l => KeyTuple(uniqueItems[k]) # KeyTuple(uniqueItems[l])
        /\ uniqueItems = FirstOfEachKey(candidates, KeyTuple)

\* C20: two records are collapsed only if they agree on creditor, type and
\* amount-or-0, whatever characters the strings hold: every input record has
\* a kept record with its (creditor, type, amount-or-0).
C20_CollapseOnlyEqualTuples ==
    dpc = "once" =>
        \A i \in 1..Len(candidates) :
            \E k \in 1..Len(uniqueItems) :
                KeyTuple(uniqueItems[k]) = KeyTuple(candidates[i])

(***************************************************************************)
(* Properties of the POST /process handler                                 *)
(***************************************************************************)
HandlerEnded == pc \in {"done", "rejected"}

TerminalWrites == {i \in 1..Len(statusWrites) : statusWrites[i] \in {"completed", "failed"}}

\* C1: one run of the handler issues at most one terminal status write: never
\* both 'completed' and 'failed'.
C1_AtMostOneTerminalWrite == Cardinality(TerminalWrites) <= 1

\* C2: a run that has marked the job 'processing' does not end with the job
\* record still at 'processing'.
C2_NeverLeftProcessing == HandlerEnded => jobStatus # "processing"

\* the records of the chunks whose call and parse succeeded, in chunk order
SucceededItems ==
    Concat([i \in 1..Len(chunkOutcomes) |->
               IF chunkOutcomes[i].caught THEN <<>> ELSE chunkOutcomes[i].items])

ChunksDone == pc \in {"upsert", "updateCompleted", "updateFailed", "done", "rejected"}

\* C3: whatever chunks fail, a request is issued for every chunk in order, the
\* records returned are the deduplicated records of the chunks that succeeded,
\* the job is not marked 'failed' (a 'failed' write can only follow the
\* 'completed' write of the run), and the run ends with the job 'completed'
\* and a success response unless a status write or the response itself failed.
C3_ChunkFailuresTolerated ==
    nChunks > 0 =>
        /\ requested = [i \in 1..Len(requested) |-> i]
        /\ Len(requested) = IF pc = "openai" THEN chunkIdx - 1 ELSE nChunks
        /\ Len(chunkOutcomes) = Len(requested)
        /\ pc # "openai" => ChunksDone /\ creditItems = Dedup(SucceededItems)
        /\ \A i \in 1..Len(statusWrites) :
              statusWrites[i] = "failed" =>
                 \E j \in 1..(i - 1) : statusWrites[j] = "completed"
        /\ (HandlerEnded /\ faults = {}) =>
              /\ jobStatus = "completed"
              /\ Len(httpResponse) = 1 /\ httpResponse[1].success

\* chunk 2 of 3 fails, chunks 1 and 3 give records (one of them a duplicate),
\* upserts fail, and the job ends 'completed'
C3_Witness ==
    /\ pc = "done"
    /\ nChunks = 3
    /\ ~chunkOutcomes[1].caught /\ chunkOutcomes[1].items # <<>>
    /\ chunkOutcomes[2].caught
    /\ ~chunkOutcomes[3].caught /\ chunkOutcomes[3].items # <<>>
    /\ Len(creditItems) = 2
    /\ Len(allItems) = 3
    /\ savedItems = <<>>
    /\ jobStatus = "completed"

\* the step that handled the response of lastResponse went on to the next
\* chunk, or past the loop
WentOn == (pc = "openai" /\ chunkIdx = Len(requested) + 1) \/ pc \in {"upsert", "updateCompleted"}

\* C10: a record list under `accounts` contributes the records that the same
\* list contributes under `items`, namely the list; a response object with
\* neither key contributes nothing, raises no error, and the loop goes on.
C10_AccountsSameAsItems ==
    (lastResponse # <<>> /\ lastResponse[1].kind = "object") =>
        LET r == lastResponse[1]
            out == chunkOutcomes[Len(chunkOutcomes)]
        IN  /\ (r.items = Absent /\ r.accounts.k = "array") =>
                  ~out.caught /\ out.items = r.accounts.v /\ WentOn
            /\ (r.accounts = Absent /\ r.items.k = "array") =>
                  ~out.caught /\ out.items = r.items.v /\ WentOn
            /\ (r.items = Absent /\ r.accounts = Absent) =>
                  ~out.caught /\ out.items = <<>> /\ WentOn
            /\ allItems = SucceededItems

C10_Witness ==
    /\ Len(chunkOutcomes) = 2
    /\ lastResponse # <<>>
    /\ lastResponse[1].kind = "object"
    /\ lastResponse[1].items = Absent
    /\ lastResponse[1].accounts = Array(<<R2, R3>>)
    /\ allItems = <<R2, R3>>
    /\ pc = "openai"

\* the 'completed' write was issued: negativeItems and result_json of lines
\* 255-272 were computed
SummaryComputed == \E i \in 1..Len(statusWrites) : statusWrites[i] = "completed"

\* C13: a run that ends with the job marked 'failed' attempted no upsert and
\* computed no summary.
C13_FailedRunSkipsPersistence ==
    (HandlerEnded /\ jobStatus = "failed") =>
        upsertAttempts = <<>> /\ ~SummaryComputed

\* extractPdfText returned a text the test of line 216 rejects
ShortText == extractedLen >= 0 /\ extractedLen < MinExtractedLength

\* C14: when the extracted text is empty or shorter than 100 characters the
\* run goes to the 'failed' write with the insufficient-text error, and no
\* chunking, no language-service request, no upsert and no summary happens;
\* chunking happens only with a text of at least 100 characters.
C14_ShortTextFailsJob ==
    /\ ShortText =>
           /\ pc \in {"updateFailed", "done", "rejected"}
           /\ thrown = <<"insufficient">>
           /\ nChunks = 0 /\ requested = <<>> /\ upsertAttempts = <<>>
           /\ ~SummaryComputed
           /\ HandlerEnded => statusWrites[Len(statusWrites)] = "failed"
           /\ jobStatus = "failed" => errorMessage = <<"insufficient">>
           /\ \A i \in 1..Len(httpResponse) :
                  ~httpResponse[i].success /\ httpResponse[i].error = <<"insufficient">>
    /\ nChunks > 0 => extractedLen >= MinExtractedLength

\* a text of 99 characters was returned and the job ended 'failed'
C14_Witness ==
    /\ HandlerEnded /\ extractedLen = MinExtractedLength - 1
    /\ jobStatus = "failed" /\ Len(httpResponse) = 1

\* the upsert loop is over
UpsertsDone == pc \in {"updateCompleted", "updateFailed", "done", "rejected"}

\* C16: an upsert is attempted once for every deduplicated item, in order,
\* whatever upserts failed before; a failed upsert does not end the loop and
\* does not turn the job 'failed': a 'failed' write comes only after the
\* 'completed' write, and the run ends 'completed' when no status write and
\* no response failed.
C16_UpsertPerItemInOrder ==
    /\ \A i \in 1..Len(upsertAttempts) : upsertAttempts[i] = i
    /\ pc = "upsert" => Len(upsertAttempts) = itemIdx - 1
    /\ UpsertsDone => Len(upsertAttempts) = Len(creditItems)
    /\ Len(savedItems) <= Len(upsertAttempts)
    /\ (upsertAttempts # <<>> /\ pc = "updateFailed") => SummaryComputed
    /\ (upsertAttempts # <<>> /\ HandlerEnded /\ faults = {}) =>
           jobStatus = "completed"

\* the first upsert failed, the second was attempted and saved, and the job
\* ended 'completed'
C16_Witness ==
    /\ HandlerEnded /\ jobStatus = "completed" /\ faults = {}
    /\ Len(upsertAttempts) = 2 /\ Len(creditItems) = 2
    /\ savedItems = <<ItemRow(creditItems[2])>>

\* C17: a run sends exactly one response, and it agrees with the job record:
\* success exactly when the job is 'completed', with the totals of the stored
\* summary; failure exactly when the job is 'failed', with its error message.
C17_ResponseAgreesWithJob ==
    HandlerEnded =>
        /\ Len(httpResponse) = 1
        /\ httpResponse[1].success <=> jobStatus = "completed"
        /\ ~httpResponse[1].success <=> jobStatus = "failed"
        /\ httpResponse[1].success =>
               /\ resultJson # <<>>
               /\ httpResponse[1].totalItems = resultJson[1].total_items
               /\ httpResponse[1].negativeItems = resultJson[1].negative_items
        /\ ~httpResponse[1].success => httpResponse[1].error = errorMessage

\* the calls of one kind, in the order in which they were issued
IssuedOf(op) ==
    SelectSeq(callLog, LAMBDA e : e.ev = "issue" /\ e.call.op = op)

PipelineOps == {"download", "extract", "openai", "upsert"}

\* C18: at most one external call is in flight: a call is issued only when
\* the one before it has settled.  The chunk requests and the upserts are
\* issued in the order 1, 2, ...; the 'processing' write is the first call,
\* before the download; no pipeline call is issued after a terminal status
\* write was issued.
C18_OneCallInFlight ==
    /\ \A k \in 1..Len(callLog) :
           IF k % 2 = 1
           THEN callLog[k].ev = "issue"
           ELSE callLog[k].ev = "settle" /\ callLog[k].call = callLog[k - 1].call
    /\ \A i \in 1..Len(IssuedOf("openai")) : IssuedOf("openai")[i].call.n = i
    /\ \A i \in 1..Len(IssuedOf("upsert")) : IssuedOf("upsert")[i].call.n = i
    /\ pc # "idle" => callLog[1].call.op = "updateProcessing"
    /\ Len(IssuedOf("download")) <= 1 /\ Len(IssuedOf("extract")) <= 1
    /\ \A j, k \in 1..Len(callLog) :
           (/\ j < k
            /\ callLog[j].call.op \in {"updateCompleted", "updateFailed"})
           => callLog[k].call.op \notin PipelineOps

\* three chunk requests and two upserts were issued and settled one after
\* the other, and the run ended
C18_Witness ==
    /\ HandlerEnded
    /\ Len(IssuedOf("openai")) = 3 /\ Len(IssuedOf("upsert")) = 2
    /\ Len(callLog) = 18

\* the positions of the negative items among the deduplicated items
NegativePositions == {i \in 1..Len(creditItems) : creditItems[i].isNegative}

\* the position of the k-th negative item
NthNegative(k) ==
    CHOOSE i \in NegativePositions :
        Cardinality({j \in NegativePositions : j <= i}) = k

\* C19: the summary stored with 'completed' has total_items = the number of
\* deduplicated items, saved or not; negative_items = the number of those
\* with isNegative; negative_accounts has one entry per negative item, in
\* first-seen order, with its creditor, type, amount and bureaus; and
\* negative_items <= total_items.
C19_SummaryOfDeduplicatedItems ==
    resultJson # <<>> =>
        LET summary == resultJson[1]
        IN  /\ creditItems = Dedup(allItems)
            /\ summary.total_items = Len(creditItems)
            /\ summary.negative_items = Cardinality(NegativePositions)
            /\ summary.negative_items <= summary.total_items
            /\ Len(summary.negative_accounts) = summary.negative_items
            /\ \A k \in 1..Len(summary.negative_accounts) :
                   LET item == creditItems[NthNegative(k)]
                       account == summary.negative_accounts[k]
                   IN  /\ account.creditor = item.creditor
                       /\ account.type = item.type
                       /\ account.amount_cents = item.amount
                       /\ account.bureaus = item.bureaus

\* three items, the first and the last negative, one upsert failed, and the
\* summary was stored
C19_Witness ==
    /\ jobStatus = "completed" /\ resultJson # <<>>
    /\ Len(creditItems) = 3 /\ NegativePositions = {1, 3}
    /\ Len(savedItems) = 2
    /\ resultJson[1].negative_items = 2

====
